---- MODULE Spec2Model ----
(***************************************************************************)
(* WaveGenerator: create_wave_file(frequency, duration) builds a 44-byte   *)
(* RIFF/WAVE header and a 24-bit little-endian PCM payload of a sine tone  *)
(* and writes both to audio.wav through a std::ofstream.                   *)
(*                                                                         *)
(* src/main.cpp holds two copies of the program (lines 1-167 and 168-311). *)
(* They differ in k_amplitude (30'000'000 / 300'000) and in the Nyquist    *)
(* check of create_wave_file (present / absent).  The variable `build`     *)
(* says which copy runs.                                                   *)
(*                                                                         *)
(* Numbers.  TLC integers are 32-bit signed, the program's sizes are       *)
(* uint32_t / uint64_t, so unsigned values are little-endian sequences of  *)
(* base-65536 limbs ("Big", <<>> is zero, no high zero limb).              *)
(* A duration is a binary64 value m * 2^e with an integer significand m.   *)
(* For the significands used here every product with 48000 or 144000 has   *)
(* fewer than 53 significant bits, so the double multiplication of the     *)
(* source is exact and the model computes it exactly.                      *)
(***************************************************************************)
EXTENDS Integers, Naturals, Sequences, FiniteSets, TLC

----------------------------------------------------------------------------
(* Unsigned arithmetic wider than 31 bits *)

LimbBase == 256 * 256

RECURSIVE BigNorm(_)
BigNorm(s) ==
  IF s = <<>> THEN <<>>
  ELSE IF s[Len(s)] = 0 THEN BigNorm(SubSeq(s, 1, Len(s) - 1)) ELSE s

RECURSIVE BigOfInt(_)
BigOfInt(n) ==
  IF n = 0 THEN <<>> ELSE <<n % LimbBase>> \o BigOfInt(n \div LimbBase)

\* value of a Big known to be below 2^31
BigToInt(s) ==
  IF Len(s) = 0 THEN 0
  ELSE IF Len(s) = 1 THEN s[1]
  ELSE s[1] + LimbBase * s[2]

RECURSIVE BigMulCarry(_, _, _)
BigMulCarry(s, k, carry) ==
  IF s = <<>> THEN BigOfInt(carry)
  ELSE LET t == s[1] * k + carry
       IN  <<t % LimbBase>> \o BigMulCarry(Tail(s), k, t \div LimbBase)

\* s * k for 0 <= k <= 4096
BigMulSmall(s, k) == BigNorm(BigMulCarry(s, k, 0))

RECURSIVE BigAddCarry(_, _, _)
BigAddCarry(a, b, carry) ==
  IF a = <<>> /\ b = <<>> THEN BigOfInt(carry)
  ELSE LET x == IF a = <<>> THEN 0 ELSE a[1]
           y == IF b = <<>> THEN 0 ELSE b[1]
           t == x + y + carry
       IN  <<t % LimbBase>> \o
           BigAddCarry(IF a = <<>> THEN <<>> ELSE Tail(a),
                       IF b = <<>> THEN <<>> ELSE Tail(b), t \div LimbBase)

BigAdd(a, b) == BigNorm(BigAddCarry(a, b, 0))

\* s * k for 0 <= k < 2^24
BigMulInt(s, k) ==
  BigAdd(BigMulSmall(BigMulSmall(s, k \div 4096), 4096), BigMulSmall(s, k % 4096))

\* floor(s / k) for 1 <= k <= 4096, limbs taken from the most significant end
RECURSIVE BigDivRem(_, _, _)
BigDivRem(s, k, rem) ==
  IF s = <<>> THEN <<>>
  ELSE LET top == rem * LimbBase + s[Len(s)]
       IN  BigDivRem(SubSeq(s, 1, Len(s) - 1), k, top % k) \o <<top \div k>>

BigDivSmall(s, k) == BigNorm(BigDivRem(s, k, 0))

\* s * 2^k for k >= 0, floor(s / 2^(-k)) for k < 0, twelve bits at a time
RECURSIVE BigScale2(_, _)
BigScale2(s, k) ==
  IF k >= 12 THEN BigScale2(BigMulSmall(s, 4096), k - 12)
  ELSE IF k >= 0 THEN BigMulSmall(s, 2 ^ k)
  ELSE IF k <= 0 - 12 THEN BigScale2(BigDivSmall(s, 4096), k + 12)
  ELSE BigDivSmall(s, 2 ^ (0 - k))

RECURSIVE BigLessFromTop(_, _)
BigLessFromTop(a, b) ==
  IF a = <<>> THEN FALSE
  ELSE IF a[Len(a)] # b[Len(b)] THEN a[Len(a)] < b[Len(b)]
  ELSE BigLessFromTop(SubSeq(a, 1, Len(a) - 1), SubSeq(b, 1, Len(b) - 1))

BigLess(a, b) ==
  IF Len(a) # Len(b) THEN Len(a) < Len(b) ELSE BigLessFromTop(a, b)

BigLeq(a, b) == a = b \/ BigLess(a, b)

\* a - b for b <= a
RECURSIVE BigSubBorrow(_, _, _)
BigSubBorrow(a, b, borrow) ==
  IF a = <<>> THEN <<>>
  ELSE LET y == IF b = <<>> THEN 0 ELSE b[1]
           t == a[1] - y - borrow
       IN  <<t % LimbBase>> \o
           BigSubBorrow(Tail(a), IF b = <<>> THEN <<>> ELSE Tail(b),
                        IF t < 0 THEN 1 ELSE 0)

BigSub(a, b) == BigNorm(BigSubBorrow(a, b, 0))

\* static_cast<uint32_t>(x) of an unsigned x: x mod 2^32
BigLow32(s) == BigNorm(SubSeq(s, 1, IF Len(s) < 2 THEN Len(s) ELSE 2))

UINT32_MAX == <<65535, 65535>>
UINT64_MAX == <<65535, 65535, 65535, 65535>>

----------------------------------------------------------------------------
(* Program constants *)

k_sample_rate == 48000
k_bits_per_sample == 24
k_header_size == 44
k_header_bloc_size == 16
k_channel_count_mono == 1
k_audio_format_PCM == 1

\* k_amplitude of the copy of main.cpp that is built
k_amplitude(b) == IF b = 1 THEN 30000000 ELSE 300000

----------------------------------------------------------------------------
(* binary64 values m * 2^e and their conversions to unsigned integers *)

Double(m, e) == [m |-> m, e |-> e]

DoubleLeqZero(d) == d.m <= 0

\* d * k for d > 0 and an unsigned k < 2^24, exact: significand as a Big
DoubleTimes(d, k) == [mant |-> BigMulInt(BigOfInt(d.m), k), e |-> d.e]

\* the integer part of a positive product, of any size
TruncBig(x) == BigScale2(x.mant, x.e)

\* static_cast<uint64_t>(double): truncation toward zero when the result is
\* representable; otherwise the behaviour is undefined and the result is
\* whatever the target's conversion leaves behind (ub)
ToUint64(x, ub) == IF Len(TruncBig(x)) <= 4 THEN TruncBig(x) ELSE ub

\* implicit conversion double -> uint32_t, same rule for 32 bits
ToUint32(x, ub) == IF Len(TruncBig(x)) <= 2 THEN TruncBig(x) ELSE ub

\* what an out-of-range conversion yields: 0 from the x86-64 cvttsd2si
\* sequence, the saturated maximum from aarch64 fcvtzu
OutOfRangeU64 == {<<>>, UINT64_MAX}
OutOfRangeU32 == {<<>>, UINT32_MAX}

----------------------------------------------------------------------------
(* WaveHeader.h: the 44-byte record, fields little-endian *)

LE16(n) == <<n % 256, n \div 256>>

LE32(big) ==
  LET l0 == IF Len(big) >= 1 THEN big[1] ELSE 0
      l1 == IF Len(big) >= 2 THEN big[2] ELSE 0
  IN  LE16(l0) \o LE16(l1)

Tag_RIFF == <<82, 73, 70, 70>>
Tag_WAVE == <<87, 65, 86, 69>>
Tag_fmt  == <<102, 109, 116, 32>>
Tag_data == <<100, 97, 116, 97>>

\* memcpy(header.data(), &hdr, k_header_size)
WaveHeader(hdr) ==
  Tag_RIFF \o LE32(hdr.file_size) \o Tag_WAVE \o
  Tag_fmt \o LE32(BigOfInt(hdr.bloc_size)) \o LE16(hdr.audio_format) \o
  LE16(hdr.channel_count) \o LE32(BigOfInt(hdr.sample_rate)) \o
  LE32(BigOfInt(hdr.bytes_per_sec)) \o LE16(hdr.bytes_per_bloc) \o
  LE16(hdr.bits_per_sample) \o
  Tag_data \o LE32(hdr.data_size)

\* field readers on the serialized header (0-based byte offsets)
U16At(bytes, off) == bytes[off + 1] + 256 * bytes[off + 2]
U32At(bytes, off) == BigNorm(<<U16At(bytes, off), U16At(bytes, off + 2)>>)

bytes_per_bloc == (k_channel_count_mono * k_bits_per_sample) \div 8
bytes_per_sec == k_sample_rate * bytes_per_bloc

\* the duration times the sample rate, the block align forgotten
HeaderDataSize_persample(file_length_sec, ub) ==
  ToUint64(DoubleTimes(file_length_sec, k_sample_rate), ub)

\* uint64_t data_size = static_cast<uint64_t>(file_length_sec * hdr.bytes_per_sec)
HeaderDataSize(file_length_sec, ub) ==
  ToUint64(DoubleTimes(file_length_sec, bytes_per_sec), ub)

\* hdr.file_size = wave::k_header_size + hdr.data_size - 8, in uint32_t
HeaderFileSize(data_size) ==
  BigLow32(BigSub(BigAdd(BigOfInt(k_header_size), data_size), BigOfInt(8)))

\* create_wave_header: throws std::overflow_error or returns the 44 bytes
create_wave_header(file_length_sec, ub) ==
  LET data_size == HeaderDataSize(file_length_sec, ub)
  IN  IF BigLess(UINT32_MAX, data_size)
      THEN [thrown |-> "overflow_error", header |-> <<>>]
      ELSE [thrown |-> "none",
            header |-> WaveHeader(
              [file_size       |-> HeaderFileSize(BigLow32(data_size)),
               bloc_size       |-> k_header_bloc_size,
               audio_format    |-> k_audio_format_PCM,
               channel_count   |-> k_channel_count_mono,
               sample_rate     |-> k_sample_rate,
               bytes_per_sec   |-> bytes_per_sec,
               bytes_per_bloc  |-> bytes_per_bloc,
               bits_per_sample |-> k_bits_per_sample,
               data_size       |-> BigLow32(data_size)])]

----------------------------------------------------------------------------
(* SineWaveGen.h *)

sine_wave_generator(wave_amplitude, wave_frequency, sample_rate) ==
  [m_amplitude |-> wave_amplitude, m_frequency |-> wave_frequency,
   m_sample_rate |-> sample_rate]

\* std::sin(2.0 * k_PI * m_frequency * sample_time) at a whole number q of
\* quarter turns.  The argument differs from q*pi/2 by a few ulps, so the
\* binary64 result is exactly +-1.0 at odd q and below 1e-14 in magnitude
\* at even q; the latter times any uint32_t amplitude truncates to 0.
SinQuarter(q) == CASE q = 0 -> 0 [] q = 1 -> 1 [] q = 2 -> 0 [] q = 3 -> -1

\* get_sample: static_cast<int32_t>(m_amplitude * sin(...)).  Defined for
\* frequencies that are multiples of a quarter of the sample rate.
get_sample(g, sample_index) ==
  LET turn == (g.m_frequency * sample_index) % g.m_sample_rate
  IN  g.m_amplitude * SinQuarter((4 * turn) \div g.m_sample_rate)

\* most significant byte first
SampleBytes_bigendian(sample) ==
  <<(sample \div 65536) % 256, (sample \div 256) % 256, sample % 256>>

\* the three push_back calls of the loop body; >> on a negative int32_t is
\* the arithmetic shift, & 0xFF the residue mod 256
SampleBytes(sample) ==
  <<sample % 256, (sample \div 256) % 256, (sample \div 65536) % 256>>

----------------------------------------------------------------------------
(* Bounds of the exploration *)

\* durations m * 2^SmallExp seconds for m in -1 .. MaxSmallM
MaxSmallM == 3
\* frequencies q * 12000 Hz for q in 1 .. MaxQuarter
MaxQuarter == 3
\* bytes the std::vector of create_wave_data can grow to before the
\* allocator gives up
MaxVectorBytes == 4096

SmallExp == 0 - 14

\* around the largest duration the header accepts: at 2^-14 s granularity
\* floor(144000 * d) is 2^32 - 41, 2^32 - 5 and 2^32 + 3
NearLimit == {Double(488671830, SmallExp), Double(488671834, SmallExp),
              Double(488671835, SmallExp)}

\* 2^50 s: 144000 * d >= 2^64
Huge == {Double(1, 50)}

Durations == {Double(m, SmallExp) : m \in (0 - 1) .. MaxSmallM} \cup NearLimit \cup Huge

Frequencies == {q * (k_sample_rate \div 4) : q \in 1 .. MaxQuarter}

----------------------------------------------------------------------------
(* create_wave_data *)

RECURSIVE WaveDataLoop(_, _, _, _)
WaveDataLoop(g, sample_index, total_sample_count, acc) ==
  IF sample_index < total_sample_count
  THEN WaveDataLoop(g, sample_index + 1, total_sample_count,
         [samples   |-> acc.samples \o SampleBytes(get_sample(g, sample_index)),
          evaluated |-> Append(acc.evaluated, sample_index)])
  ELSE acc

\* round to nearest instead of the conversion's truncation
TotalSampleCount_rounded(file_length_sec, ub) ==
  LET x == DoubleTimes(file_length_sec, k_sample_rate)
  IN  ToUint32([mant |-> BigAdd(BigMulSmall(x.mant, 2), BigScale2(<<1>>, 0 - x.e)),
                e |-> x.e - 1], ub)

\* uint32_t total_sample_count = k_sample_rate * file_length_sec
TotalSampleCount(file_length_sec, ub) ==
  ToUint32(DoubleTimes(file_length_sec, k_sample_rate), ub)

\* samples.size() when the loop is done: three push_back calls for each of
\* the total_sample_count iterations, as a size_t
SamplesSize(file_length_sec, ub) ==
  BigMulSmall(TotalSampleCount(file_length_sec, ub), 3)

\* the uint32_t data_size parameter that write_to_file receives for
\* samples.size()
WriteDataSizeArg(file_length_sec, ub) == BigLow32(SamplesSize(file_length_sec, ub))

\* returns the payload and the indices handed to get_sample, in call order;
\* a vector that cannot grow to 3 * total_sample_count bytes ends the call
\* with std::bad_alloc
create_wave_data(g, file_length_sec, ub) ==
  LET total == TotalSampleCount(file_length_sec, ub)
  IN  IF BigLess(BigOfInt(MaxVectorBytes), BigMulSmall(total, 3))
      THEN [thrown |-> "bad_alloc", samples |-> <<>>, evaluated |-> <<>>]
      ELSE LET r == WaveDataLoop(g, 0, BigToInt(total),
                                 [samples |-> <<>>, evaluated |-> <<>>])
           IN  [thrown |-> "none", samples |-> r.samples, evaluated |-> r.evaluated]

----------------------------------------------------------------------------
(* State *)

VARIABLES
  build,            \* 1: main.cpp lines 1-167, 2: main.cpp lines 168-311
  pc,               \* where control is
  wave_frequency,   \* arguments of the running create_wave_file call
  file_length_sec,
  header,           \* create_wave_file's locals
  audio_source,     \* create_wave_data's generator object
  samples,
  evaluated,        \* sample indices passed to get_sample, in order
  file,             \* write_to_file's std::ofstream
  io_log,           \* stream operations of the running call, in order
  thrown,           \* exception that left create_wave_file, or "none"
  disk,             \* audio.wav
  disk_at_call,     \* audio.wav as it was when the call began
  earlier           \* the first encoding any call produced

vars == <<build, pc, wave_frequency, file_length_sec, header, audio_source,
          samples, evaluated, file, io_log, thrown, disk, disk_at_call, earlier>>

NoSource == sine_wave_generator(0, 0, 0)
ClosedStream == [is_open |-> FALSE, failbit |-> FALSE, buf |-> <<>>]
NoFile == [exists |-> FALSE, bytes |-> <<>>]

Init ==
  /\ build \in {1, 2}
  /\ pc = "main"
  /\ wave_frequency = 0
  /\ file_length_sec = Double(0, 0)
  /\ header = <<>>
  /\ audio_source = NoSource
  /\ samples = <<>>
  /\ evaluated = <<>>
  /\ file = ClosedStream
  /\ io_log = <<>>
  /\ thrown = "none"
  /\ disk = NoFile
  /\ disk_at_call = NoFile
  /\ earlier = <<>>

----------------------------------------------------------------------------
(* create_wave_file *)

\* the argument checks of create_wave_file; the second copy has no
\* frequency check
Validate(b, f, d) ==
  IF DoubleLeqZero(d) THEN "invalid_argument"
  ELSE IF b = 1 /\ f > k_sample_rate \div 2 THEN "invalid_argument"
  ELSE "none"

\* main calls create_wave_file(frequency, file_length)
CallCreateWaveFile ==
  /\ pc = "main"
  /\ \E f \in Frequencies, d \in Durations :
       /\ wave_frequency' = f
       /\ file_length_sec' = d
       /\ thrown' = Validate(build, f, d)
       /\ pc' = IF Validate(build, f, d) = "none" THEN "create_wave_header"
                ELSE "returned"
  /\ header' = <<>>
  /\ audio_source' = NoSource
  /\ samples' = <<>>
  /\ evaluated' = <<>>
  /\ file' = ClosedStream
  /\ io_log' = <<>>
  /\ disk_at_call' = disk
  /\ UNCHANGED <<build, disk, earlier>>

\* auto header = create_wave_header(file_length_sec)
CreateWaveHeader ==
  /\ pc = "create_wave_header"
  /\ \E ub \in OutOfRangeU64 :
       LET r == create_wave_header(file_length_sec, ub)
       IN  /\ header' = r.header
           /\ thrown' = r.thrown
           /\ pc' = IF r.thrown = "none" THEN "create_wave_data" ELSE "returned"
  /\ UNCHANGED <<build, wave_frequency, file_length_sec, audio_source, samples,
                 evaluated, file, io_log, disk, disk_at_call, earlier>>

\* a generator that outlives the call and keeps counting samples
CreateWaveData_carry ==
  /\ pc = "create_wave_data"
  /\ audio_source' = sine_wave_generator(k_amplitude(build), wave_frequency, k_sample_rate)
  /\ \E ub \in OutOfRangeU32 :
       LET r == create_wave_data(audio_source', file_length_sec, ub)
           done == IF earlier = <<>> THEN 0 ELSE Len(earlier[1].samples) \div 3
           s == WaveDataLoop(audio_source', done, done + Len(r.evaluated),
                             [samples |-> <<>>, evaluated |-> <<>>])
       IN  /\ samples' = s.samples
           /\ evaluated' = r.evaluated
           /\ thrown' = r.thrown
           /\ pc' = IF r.thrown = "none" THEN "write_to_file" ELSE "returned"
  /\ UNCHANGED <<build, wave_frequency, file_length_sec, header, file, io_log,
                 disk, disk_at_call, earlier>>

\* auto samples = create_wave_data(wave_frequency, file_length_sec)
CreateWaveData ==
  /\ pc = "create_wave_data"
  /\ audio_source' = sine_wave_generator(k_amplitude(build), wave_frequency, k_sample_rate)
  /\ \E ub \in OutOfRangeU32 :
       LET r == create_wave_data(audio_source', file_length_sec, ub)
       IN  /\ samples' = r.samples
           /\ evaluated' = r.evaluated
           /\ thrown' = r.thrown
           /\ pc' = IF r.thrown = "none" THEN "write_to_file" ELSE "returned"
  /\ UNCHANGED <<build, wave_frequency, file_length_sec, header, file, io_log,
                 disk, disk_at_call, earlier>>

----------------------------------------------------------------------------
(* write_to_file *)

\* bytes a failed transfer of n pending bytes may still have put on disk
ShortCounts(n) == {0, n - 1}

\* std::ofstream file(file_path, std::fstream::binary); if (!file.is_open()) throw
OpenFile ==
  /\ pc = "write_to_file"
  /\ \/ /\ file' = [is_open |-> TRUE, failbit |-> FALSE, buf |-> <<>>]
        /\ disk' = [exists |-> TRUE, bytes |-> <<>>]
        /\ io_log' = Append(io_log, "open")
        /\ pc' = "write_header"
        /\ UNCHANGED thrown
     \/ /\ file' = [is_open |-> FALSE, failbit |-> TRUE, buf |-> <<>>]
        /\ io_log' = Append(io_log, "open_failed")
        /\ thrown' = "open_error"
        /\ pc' = "returned"
        /\ UNCHANGED disk
  /\ UNCHANGED <<build, wave_frequency, file_length_sec, header, audio_source,
                 samples, evaluated, disk_at_call, earlier>>

\* file.write(bytes, n) on the open stream, followed on failure by the
\* catch block's file.close() and rethrow.  The stream is buffered: the
\* bytes stay in the buffer, or the buffer is flushed to the file, or the
\* flush fails part way and sets failbit.
StreamWrite(bytes, op, error, next) ==
  LET pending == file.buf \o bytes
  IN  \/ /\ file' = [file EXCEPT !.buf = pending]
         /\ io_log' = Append(io_log, op)
         /\ pc' = next
         /\ UNCHANGED <<disk, thrown>>
      \/ /\ file' = [file EXCEPT !.buf = <<>>]
         /\ disk' = [disk EXCEPT !.bytes = @ \o pending]
         /\ io_log' = Append(io_log, op)
         /\ pc' = next
         /\ UNCHANGED thrown
      \/ /\ pending # <<>>
         /\ io_log' = io_log \o <<op, "close">>
         /\ \E k \in ShortCounts(Len(pending)) :
              disk' = [disk EXCEPT !.bytes = @ \o SubSeq(pending, 1, k)]
         /\ file' = [is_open |-> FALSE, failbit |-> TRUE, buf |-> <<>>]
         /\ thrown' = error
         /\ pc' = "returned"

\* the header failure reported with the payload's message
WriteHeaderBytes_wrongname ==
  /\ pc = "write_header"
  /\ StreamWrite(header, "write_header", "write_error_data", "write_data")
  /\ UNCHANGED <<build, wave_frequency, file_length_sec, header, audio_source,
                 samples, evaluated, disk_at_call, earlier>>

\* if (file.write((const char*)hdr, hdr_size).fail()) throw ...
WriteHeaderBytes ==
  /\ pc = "write_header"
  /\ StreamWrite(header, "write_header", "write_error_header", "write_data")
  /\ UNCHANGED <<build, wave_frequency, file_length_sec, header, audio_source,
                 samples, evaluated, disk_at_call, earlier>>

\* if (file.write((const char*)data, data_size).fail()) throw ...
\* data_size is samples.size() narrowed to uint32_t; payloads here stay
\* below MaxVectorBytes, so the narrowing keeps the value
WriteAudioData ==
  /\ pc = "write_data"
  /\ StreamWrite(samples, "write_data", "write_error_data", "close")
  /\ UNCHANGED <<build, wave_frequency, file_length_sec, header, audio_source,
                 samples, evaluated, disk_at_call, earlier>>

\* the final file.close(): flushes what is buffered; a failed flush sets
\* failbit, which nobody reads, and write_to_file returns normally
CloseFile ==
  /\ pc = "close"
  /\ io_log' = Append(io_log, "close")
  /\ \/ /\ disk' = [disk EXCEPT !.bytes = @ \o file.buf]
        /\ file' = [is_open |-> FALSE, failbit |-> FALSE, buf |-> <<>>]
     \/ /\ file.buf # <<>>
        /\ \E k \in ShortCounts(Len(file.buf)) :
             disk' = [disk EXCEPT !.bytes = @ \o SubSeq(file.buf, 1, k)]
        /\ file' = [is_open |-> FALSE, failbit |-> TRUE, buf |-> <<>>]
  /\ pc' = "returned"
  /\ UNCHANGED <<build, wave_frequency, file_length_sec, header, audio_source,
                 samples, evaluated, thrown, disk_at_call, earlier>>

\* create_wave_data has returned the payload of the running call
Encoded ==
  /\ pc \in {"write_to_file", "write_header", "write_data", "close", "returned"}
  /\ header # <<>>
  /\ thrown # "bad_alloc"

Encoding == [frequency |-> wave_frequency, duration |-> file_length_sec,
             header |-> header, samples |-> samples]

\* main reports the outcome and exits, its locals are gone; the next run
\* starts with the audio.wav this one left
MainReturn ==
  /\ pc = "returned"
  /\ pc' = "main"
  /\ earlier' = IF Encoded /\ earlier = <<>> THEN <<Encoding>> ELSE earlier
  /\ wave_frequency' = 0
  /\ file_length_sec' = Double(0, 0)
  /\ header' = <<>>
  /\ audio_source' = NoSource
  /\ samples' = <<>>
  /\ evaluated' = <<>>
  /\ file' = ClosedStream
  /\ io_log' = <<>>
  /\ thrown' = "none"
  /\ disk_at_call' = disk
  /\ UNCHANGED <<build, disk>>

Next ==
  \/ CallCreateWaveFile
  \/ CreateWaveHeader
  \/ CreateWaveData
  \/ OpenFile
  \/ WriteHeaderBytes
  \/ WriteAudioData
  \/ CloseFile
  \/ MainReturn

Spec == Init /\ [][Next]_vars

----------------------------------------------------------------------------
(* Properties *)

IsPrefix(a, b) == Len(a) <= Len(b) /\ a = SubSeq(b, 1, Len(a))

Abs(v) == IF v < 0 THEN 0 - v ELSE v

Two23 == 2 ^ 23
Two24 == 2 ^ 24

\* header fields of the running call
HdrFileSize == U32At(header, 4)
HdrByteRate == U32At(header, 28)
HdrBlockAlign == U16At(header, 32)
HdrDataSize == U32At(header, 40)

\* the running call passed the argument checks
Validated ==
  pc # "main" /\ Validate(build, wave_frequency, file_length_sec) = "none"

\* 48000 * duration is below 2^32, so its conversion to uint32_t is defined
Representable32 ==
  Len(TruncBig(DoubleTimes(file_length_sec, k_sample_rate))) <= 2

\* floor and round-half-up of 48000 * duration in plain integers, for
\* durations m * 2^e with e <= 0 and a small m
SamplesTruncated(d) == (d.m * k_sample_rate) \div (2 ^ (0 - d.e))
SamplesRounded(d) == (2 * d.m * k_sample_rate + 2 ^ (0 - d.e)) \div (2 ^ (1 - d.e))

\* the value the i-th loop iteration handed to the encoder
SampleValue(i) == get_sample(audio_source, evaluated[i])
SampleTriple(i) == SubSeq(samples, 3 * i - 2, 3 * i)

\* a standard reader's view of three payload bytes: 24-bit little-endian
\* two's complement
Decode24(b) ==
  LET u == b[1] + 256 * b[2] + 65536 * b[3]
  IN  IF u >= Two23 THEN u - Two24 ELSE u

\* v with the bits above bit 23 dropped, read as a signed 24-bit value
Wrap24(v) == ((v + Two23) % Two24) - Two23

\* v saturated to the 24-bit range
Clamp24(v) ==
  IF v < 0 - Two23 THEN 0 - Two23 ELSE IF v > Two23 - 1 THEN Two23 - 1 ELSE v

\* C1: for every accepted duration the header's data_size equals the number
\* of payload bytes, which is total_samples * block_align
C1_DataSizeEqualsPayload ==
  Encoded =>
    /\ Len(samples) = Len(evaluated) * bytes_per_bloc
    /\ HdrDataSize = BigOfInt(Len(samples))

\* C2: for every duration with floor(duration * 144000) <= 2^32 - 1 the
\* header has block_align 3, byte_rate 144000, data_size = floor(duration *
\* byte_rate) and a file_size field equal to the integer 44 + data_size - 8
C2_HeaderFields ==
  ( /\ Validated
    /\ header # <<>>
    /\ BigLeq(TruncBig(DoubleTimes(file_length_sec, 144000)), UINT32_MAX) ) =>
    /\ HdrBlockAlign = 3
    /\ HdrByteRate = BigOfInt(144000)
    /\ HdrDataSize = TruncBig(DoubleTimes(file_length_sec, 144000))
    /\ HdrFileSize = BigSub(BigAdd(BigOfInt(44), HdrDataSize), BigOfInt(8))

\* C3: a call whose floor(duration * 144000) exceeds 2^32 - 1 ends with the
\* overflow error of create_wave_header, without payload construction,
\* without any stream operation and with audio.wav as it was
C3_OverflowRejected ==
  ( /\ Validated
    /\ pc # "create_wave_header"
    /\ BigLess(UINT32_MAX, TruncBig(DoubleTimes(file_length_sec, 144000))) ) =>
    /\ pc = "returned"
    /\ thrown = "overflow_error"
    /\ samples = <<>> /\ evaluated = <<>>
    /\ io_log = <<>>
    /\ disk = disk_at_call

\* C4: a call with duration <= 0 or frequency > 24000 ends with an
\* invalid-argument error before header, payload or stream are touched;
\* every other call passes validation
C4_Validation ==
  pc # "main" =>
    /\ (DoubleLeqZero(file_length_sec) \/ wave_frequency > 24000) =>
         /\ pc = "returned"
         /\ thrown = "invalid_argument"
         /\ header = <<>> /\ samples = <<>> /\ evaluated = <<>>
         /\ io_log = <<>>
         /\ disk = disk_at_call
    /\ (~DoubleLeqZero(file_length_sec) /\ wave_frequency <= 24000) =>
         thrown # "invalid_argument"

\* C5: when write_to_file hands control back the stream is not open, a
\* write failure has closed it before propagating, and a return without
\* error leaves audio.wav holding exactly the header followed by the payload
C5_ClosedAndComplete ==
  pc = "returned" =>
    /\ ~file.is_open
    /\ thrown \in {"write_error_header", "write_error_data"} =>
         io_log[Len(io_log)] = "close"
    /\ thrown = "none" =>
         /\ disk.exists
         /\ disk.bytes = header \o samples
         /\ Len(disk.bytes) = k_header_size + Len(samples)

\* C6: write_to_file opens, writes the header, writes the payload, closes,
\* in that order; a failed open attempts no write, a failed header write is
\* reported as such and no payload write follows, a failed payload write is
\* reported as such; each error is back in main with no further attempt
C6_WriteOrder ==
  /\ \/ IsPrefix(io_log, <<"open", "write_header", "write_data", "close">>)
     \/ io_log = <<"open", "write_header", "close">>
     \/ io_log = <<"open_failed">>
  /\ (io_log # <<>> /\ io_log[1] = "open") =>
       IsPrefix(disk.bytes \o file.buf, header \o samples)
  /\ thrown = "open_error" =>
       pc = "returned" /\ io_log = <<"open_failed">> /\ disk = disk_at_call
  /\ thrown = "write_error_header" =>
       pc = "returned" /\ io_log = <<"open", "write_header", "close">>
  /\ thrown = "write_error_data" =>
       pc = "returned" /\ io_log = <<"open", "write_header", "write_data", "close">>

C6_Witness ==
  /\ pc = "returned"
  /\ thrown = "write_error_header"
  /\ io_log = <<"open", "write_header", "close">>
  /\ samples # <<>>

\* C7 as stated: the number of samples is 48000 * duration rounded to the
\* nearest integer, each index 0 .. total - 1 evaluated once, in order
C7_RoundsToNearest ==
  (Encoded /\ Representable32) =>
    /\ Len(evaluated) = SamplesRounded(file_length_sec)
    /\ \A i \in 1 .. Len(evaluated) : evaluated[i] = i - 1

\* C7 amended: the loop evaluates the signal source once for each index
\* 0 .. total_sample_count - 1 in increasing order and emits 3 bytes for
\* each; total_sample_count is 48000 * duration truncated toward zero
\* whenever that product is below 2^32
C7_TruncatesTowardZero ==
  Encoded =>
    /\ \A i \in 1 .. Len(evaluated) : evaluated[i] = i - 1
    /\ Len(samples) = 3 * Len(evaluated)
    /\ Representable32 => Len(evaluated) = SamplesTruncated(file_length_sec)

\* 48000 * 3 * 2^-14 = 8.79: eight samples, not nine
C7_Witness ==
  /\ Encoded
  /\ file_length_sec = Double(3, SmallExp)
  /\ Len(evaluated) = 8
  /\ SamplesRounded(file_length_sec) = 9

\* C8: each sample value v occupies payload bytes 3i .. 3i+2 as v & 0xFF,
\* (v >> 8) & 0xFF, (v >> 16) & 0xFF; read back as 24-bit little-endian
\* two's complement they give v when -2^23 <= v <= 2^23 - 1 and otherwise v
\* with the bits above bit 23 dropped, which is not the clamped value
C8_ThreeBytesLittleEndian ==
  Encoded =>
    /\ Len(samples) = 3 * Len(evaluated)
    /\ \A i \in 1 .. Len(evaluated) :
         LET v == SampleValue(i)
             b == SampleTriple(i)
         IN  /\ b[1] = v % 256
             /\ b[2] = (v \div 256) % 256
             /\ b[3] = (v \div 65536) % 256
             /\ (0 - Two23 <= v /\ v <= Two23 - 1) => Decode24(b) = v
             /\ (v < 0 - Two23 \/ v > Two23 - 1) =>
                  Decode24(b) = Wrap24(v) /\ Decode24(b) # Clamp24(v)

\* a negative sample outside the 24-bit range has been encoded
C8_Witness ==
  /\ Encoded
  /\ \E i \in 1 .. Len(evaluated) :
       SampleValue(i) < 0 - Two23 /\ Decode24(SampleTriple(i)) = Wrap24(SampleValue(i))

C10_NoWraparound ==
  Encoded =>
    \A i \in 1 .. Len(evaluated) :
      /\ Abs(SampleValue(i)) < Two23
      /\ Abs(SampleValue(i)) <= audio_source.m_amplitude
      /\ Decode24(SampleTriple(i)) = SampleValue(i)

====
